---- MODULE Spec2Model ----
(***************************************************************************)
(* Stream adapters of zstd-rs: the two Read adapters around an Operation   *)
(* (stream/zio.rs Reader with its needs_data flag, wrapped by              *)
(* stream/bufread.rs Decoder; stream/zio/reader.rs Reader with its         *)
(* finished flags) and the Write adapter (stream/zio.rs Writer).           *)
(*                                                                         *)
(* The codec engine is external.  It is modelled by a small frame format   *)
(* that keeps the buffer contract of the real engine: a step consumes a    *)
(* prefix of the input, writes what fits into the output, keeps decoded    *)
(* bytes that did not fit in an internal buffer, stops at the end of a     *)
(* frame, and returns 0 exactly when a frame is complete and fully         *)
(* flushed.                                                                *)
(***************************************************************************)
EXTENDS Integers, Sequences, FiniteSets, TLC

(* ------------------------------ bounds -------------------------------- *)

\* Longest plaintext of one frame.
MaxPlain == 2

\* Most frames in a source.
MaxFrames == 2

\* Largest caller buffer handed to read().
MaxDst == 2

\* Decoded bytes the engine may hold back when the output buffer is full.
EngineCap == 2

\* Longest plaintext the caller of the Writer has to write.
MaxInput == 5

\* Capacity of the Writer's staging buffer.
WCap == 2

\* Plaintext bytes the compressing engine gathers into one block.
EncBlock == 4

\* Longest input of the block functions, the highest compression level
\* tried, and the number of calls followed in one behaviour.
MaxBlock == 3
MaxLevel == 3
MaxCalls == 3

\* The most bytes a writer takes before it is made to fail.
MaxSink == 8

(* --------------------------- frame format ----------------------------- *)

Min(a, b) == IF a < b THEN a ELSE b

\* Plaintext alphabet.
Plain == {"a", "b"}

\* The engine's encoding of one plaintext byte, and its inverse.
Tok == [p \in Plain |-> IF p = "a" THEN "A" ELSE "B"]

Untok == [t \in {"A", "B"} |-> IF t = "A" THEN "a" ELSE "b"]

\* The plaintext of length n that starts with p and alternates.
Pattern(p, n) ==
    [i \in 1..n |-> IF i % 2 = 1 THEN p ELSE IF p = "a" THEN "b" ELSE "a"]

\* One frame: header, encoded payload, footer.
Frame(x) == <<"H">> \o [i \in 1..Len(x) |-> Tok[x[i]]] \o <<"E">>

RECURSIVE Flatten(_)
Flatten(ss) == IF ss = <<>> THEN <<>> ELSE Head(ss) \o Flatten(Tail(ss))

\* The compressed stream holding the frames of fs, in order.
Encode(fs) == Flatten([i \in 1..Len(fs) |-> Frame(fs[i])])

\* The sources' plaintexts: frame i starts with "a" when i is odd.
FrameLists ==
    UNION {{[i \in 1..k |-> Pattern(IF i % 2 = 1 THEN "a" ELSE "b", ls[i])] :
               ls \in [1..k -> 0..MaxPlain]} : k \in 1..MaxFrames}

\* The streams that hold the frames before the last whole, and the last
\* frame whole or cut short (every stream that begins fs and ends before
\* the last frame is built from a shorter list).
Prefixes(fs) ==
    LET front == Encode(SubSeq(fs, 1, Len(fs) - 1))
        first == IF Len(fs) = 1 THEN 0 ELSE Len(front) + 1
    IN  {SubSeq(Encode(fs), 1, k) : k \in first..Len(Encode(fs))}

\* What a source may hold: whole frames, a truncated stream, or whole
\* frames followed by a byte that is no frame header.
Sources(fs) == Prefixes(fs) \cup {Encode(fs) \o <<"X">>}

(* ------------------------------ state --------------------------------- *)

VARIABLES
    kind,           \* which Read adapter this run exercises, and for
                    \* zio/reader.rs which operation it wraps
    frames,         \* the plaintexts the source was built from
    source,         \* bytes of the underlying BufRead
    pos,            \* bytes of source consumed so far
    bufEnd,         \* end of the BufRead's currently buffered window
    op,             \* engine state of the wrapped operation
    needs_data,     \* zio.rs Reader.needs_data
    finished,       \* zio/reader.rs Reader.finished
    finished_frame, \* zio/reader.rs Reader.finished_frame
    single_frame,   \* single-frame switch of the adapter in use
    fused,          \* bufread.rs Decoder.fused
    rpc,            \* position of the caller: "idle" or inside read's loop
    dstCap,         \* length of the buffer of the read() call in progress
    result,         \* what the last completed read() returned
    ev,             \* calls made by and on the adapter in the last step
    delivered,      \* bytes returned to the caller up to the first Ok(0)
    ended,          \* a read() with a non-empty buffer has returned Ok(0)
    sawErr,         \* some read() returned Err
    started,        \* some read() was called
    sfEarly,        \* single-frame mode was set before the first read()
    usedZeroCap,    \* some read() was given an empty buffer
    fed,            \* input bytes the operation consumed, in order
    lastHint,       \* hint of the most recent run call (-1 before any)
    input,          \* the plaintext the Writer's caller has to write
    wpos,           \* bytes of input that write() calls reported as taken
    sink,           \* bytes the underlying writer has accepted, in order
    enc,            \* raw::Encoder engine state
    offset,         \* Writer.offset
    buffer,         \* Writer.buffer (its valid length is Len(buffer))
    wfinished,      \* Writer.finished
    wpc,            \* position of the Writer's caller: "idle", "write", "finish"
    wbuf,           \* the buf of the last write() call, returned or not
    wresult,        \* what the last completed Writer call returned
    wev,            \* calls made by and on the Writer in the last step
                    \* ("call" when the step entered a method of the Writer)
    produced,       \* every output of the operation's steps, in order
    taken,          \* input bytes the operation consumed, in order
    bdata,          \* argument of the last block::compress call
    blevel,         \* level of the last block::compress call
    bcomp,          \* what the last block::compress call returned
    bcap,           \* capacity given to the last block::decompress call
    bplain,         \* what the last block::decompress call returned
    bcalls,         \* block::compress calls made so far
    lstate,         \* life of the legacy Encoder: "none" before it is
                    \* built, "live", or the way it ended
    ctx             \* the legacy Encoder's engine context, and how many
                    \* times it was freed

rvars == <<kind, frames, source, pos, bufEnd, op, needs_data, finished,
           finished_frame, single_frame, fused, rpc, dstCap, result, ev,
           delivered, ended, sawErr, started, sfEarly, usedZeroCap, fed,
           lastHint>>

wvars == <<input, wpos, sink, enc, offset, buffer, wfinished, wpc, wbuf,
           wresult, wev, produced, taken>>

bvars == <<bdata, blevel, bcomp, bcap, bplain, bcalls>>

lvars == <<lstate, ctx>>

vars == <<rvars, wvars, bvars, lvars>>


(* ------------------- raw::Decoder (the operation) --------------------- *)

DecInit == [stage |-> "init", pend |-> <<>>]

DecResult(stage, pend, rd, out, hint, err) ==
    [stage |-> stage, pend |-> pend, rd |-> rd, out |-> out, hint |-> hint,
     err |-> err]

\* One decompression step on input src from cursor rd, with out written so
\* far into an output buffer of cap bytes.  Decoded bytes go to the output
\* while it has room and are held in pend otherwise; the step stops at the
\* end of the input, when pend is full, or at the end of the frame.  The
\* hint is 0 exactly when the frame has ended and pend is flushed.
RECURSIVE DecLoop(_, _, _, _, _, _)
DecLoop(stage, pend, src, rd, out, cap) ==
    LET k     == Min(cap - Len(out), Len(pend))
        out1  == out \o SubSeq(pend, 1, k)
        pend1 == SubSeq(pend, k + 1, Len(pend))
    IN  IF stage = "end"
        THEN IF pend1 = <<>>
             THEN DecResult("init", <<>>, rd, out1, 0, FALSE)
             ELSE DecResult("end", pend1, rd, out1, Len(pend1), FALSE)
        ELSE IF rd = Len(src) \/ Len(pend1) >= EngineCap
        THEN DecResult(stage, pend1, rd, out1, 1 + Len(pend1), FALSE)
        ELSE LET t == src[rd + 1]
             IN  IF stage = "init"
                 THEN IF t = "H"
                      THEN DecLoop("body", pend1, src, rd + 1, out1, cap)
                      ELSE DecResult(stage, pend1, rd, out1, 0, TRUE)
                 ELSE IF t = "E"
                      THEN DecLoop("end", pend1, src, rd + 1, out1, cap)
                      ELSE IF t \in DOMAIN Untok
                      THEN DecLoop("body", Append(pend1, Untok[t]), src,
                                   rd + 1, out1, cap)
                      ELSE DecResult(stage, pend1, rd, out1, 0, TRUE)

\* <Decoder as Operation>::run
DecRun(st, src, cap) == DecLoop(st.stage, st.pend, src, 0, <<>>, cap)

\* <Decoder as Operation>::flush: Ok(0), nothing written, state untouched.
DecFlush(st, cap) == DecResult(st.stage, st.pend, 0, <<>>, 0, FALSE)

\* A finish that hands out the decoded bytes the engine holds.
DecFinishDrains(st, cap) ==
    LET k == Min(cap, Len(st.pend))
    IN  DecResult(st.stage, SubSeq(st.pend, k + 1, Len(st.pend)), 0,
                  SubSeq(st.pend, 1, k), Len(st.pend) - k, FALSE)

\* <Decoder as Operation>::finish: Ok(0), nothing written, state untouched.
DecFinish(st, cap) == DecResult(st.stage, st.pend, 0, <<>>, 0, FALSE)

\* Operation::reinit, as the design describes it: fresh per-frame state.
DecReinit(st) == DecInit

(* ------------------- raw::Encoder (the operation) --------------------- *)

EncInit == [inbuf |-> <<>>, pend |-> <<>>, open |-> FALSE, ending |-> FALSE]

EncResult(st, rd, out, hint) ==
    [st |-> st, rd |-> rd, out |-> out, hint |-> hint]

\* The compressed form of the gathered plaintext: the frame header first
\* when the frame is not open yet.
Block(st) ==
    (IF st.open THEN <<>> ELSE <<"H">>)
        \o [i \in 1..Len(st.inbuf) |-> Tok[st.inbuf[i]]]

\* Moves what fits of the pending compressed bytes to the output.
EncDrain(st, out, cap) ==
    LET k == Min(cap - Len(out), Len(st.pend))
    IN  [st  |-> [st EXCEPT !.pend = SubSeq(st.pend, k + 1, Len(st.pend))],
         out |-> out \o SubSeq(st.pend, 1, k)]

\* One compression step: pending output first; input is taken only once
\* the pending output is gone, and a full block is compressed at once.
RECURSIVE EncLoop(_, _, _, _, _)
EncLoop(st, src, rd, out, cap) ==
    LET d == EncDrain(st, out, cap)
    IN  IF d.st.pend # <<>>
        THEN EncResult(d.st, rd, d.out, EncBlock)
        ELSE IF d.st.ending
        THEN EncLoop([d.st EXCEPT !.ending = FALSE, !.open = FALSE],
                     src, rd, d.out, cap)
        ELSE IF rd = Len(src)
        THEN EncResult(d.st, rd, d.out, EncBlock - Len(d.st.inbuf))
        ELSE LET got == [d.st EXCEPT !.inbuf = Append(@, src[rd + 1])]
             IN  IF Len(got.inbuf) < EncBlock
                 THEN EncLoop(got, src, rd + 1, d.out, cap)
                 ELSE EncLoop([got EXCEPT !.pend = Block(got),
                                          !.inbuf = <<>>, !.open = TRUE],
                              src, rd + 1, d.out, cap)

\* <Encoder as Operation>::run
EncRun(st, src, cap) == EncLoop(st, src, 0, <<>>, cap)

\* <Encoder as Operation>::flush: compresses what was gathered and returns
\* the number of bytes still pending.
EncFlush(st, cap) ==
    LET st1 == IF st.inbuf = <<>> \/ st.ending THEN st
               ELSE [st EXCEPT !.pend = @ \o Block(st), !.inbuf = <<>>,
                               !.open = TRUE]
        d == EncDrain(st1, <<>>, cap)
    IN  EncResult(d.st, 0, d.out, Len(d.st.pend))

\* <Encoder as Operation>::finish: compresses what was gathered, appends
\* the footer once, and returns the number of bytes still pending; at 0 the
\* frame is closed.
EncFinish(st, cap) ==
    LET st1 == IF st.ending THEN st
               ELSE [st EXCEPT !.pend = @ \o Block(st) \o <<"E">>,
                               !.inbuf = <<>>, !.open = TRUE,
                               !.ending = TRUE]
        d == EncDrain(st1, <<>>, cap)
    IN  IF d.st.pend = <<>>
        THEN EncResult([d.st EXCEPT !.ending = FALSE, !.open = FALSE],
                       0, d.out, 0)
        ELSE EncResult(d.st, 0, d.out, Len(d.st.pend))

(* --------------------------- the BufRead ------------------------------ *)

\* The windows fill_buf may return: the unconsumed rest of the buffered
\* window, or, when that is empty, a fresh window of any length up to the
\* end of the source; at the end of the source, the empty window.
FillEnds ==
    IF pos < bufEnd THEN {bufEnd}
    ELSE IF pos = Len(source) THEN {pos}
    ELSE (pos + 1)..Len(source)

Window(e) == SubSeq(source, pos + 1, e)

(* ------------------------ returning from read ------------------------- *)

ReturnOk(out, cap) ==
    /\ rpc' = "idle"
    /\ result' = [tag |-> "ok", n |-> Len(out)]
    /\ delivered' = IF ended THEN delivered ELSE delivered \o out
    /\ ended' = (ended \/ (Len(out) = 0 /\ cap > 0))
    /\ sawErr' = sawErr

ReturnErr(tag) ==
    /\ rpc' = "idle"
    /\ result' = [tag |-> tag, n |-> 0]
    /\ UNCHANGED <<delivered, ended>>
    /\ sawErr' = TRUE

KeepLooping ==
    /\ UNCHANGED <<rpc, result, delivered, ended, sawErr>>

OpState(r) == [stage |-> r.stage, pend |-> r.pend]

(* ---------- stream/zio.rs Reader behind bufread.rs Decoder ------------ *)

\* A Reader that takes every end of input for the end of the stream.
AcceptsEofAlways(nd) == TRUE

\* "We only accept EOF if we've had a hint=0 result before."
AcceptsEof(nd) == ~nd

\* needs_data after a step.
NeedsDataAfter(eof, hint, nd) == IF ~eof THEN hint # 0 ELSE nd

\* A Reader that marks the whole window consumed.
ConsumedWindow(bytes_read, srcLen) == srcLen

\* The argument of reader.consume after a step that read bytes_read bytes
\* of a window of srcLen bytes.
Consumed(bytes_read, srcLen) == bytes_read

\* A loop that returns only once the step wrote something.
ZioDoneOnOutput(bytes_written, eof, cap) == bytes_written # 0 \/ cap = 0

\* The condition that ends the loop of zio.rs Reader::read.
ZioDone(bytes_written, eof, cap) == bytes_written # 0 \/ eof \/ cap = 0

\* A Reader that marks the window consumed when the step failed.
ConsumedOnErrorWindow(bytes_read, srcLen) == srcLen

\* What a step that failed takes from the source: the error leaves read
\* through `?` before reader.consume is reached.
ConsumedOnError(bytes_read, srcLen) == 0

\* A Decoder that fuses whatever its mode.
FusedAfterAnyMode(f, sf, nd) == f \/ ~nd

\* bufread.rs Decoder::fused after a read that returned Ok.
FusedAfter(f, sf, nd) == f \/ (sf /\ ~nd)

\* bufread.rs Decoder::set_single_frame.
SetSingleFrame ==
    /\ kind = "zio"
    /\ rpc = "idle"
    /\ single_frame' = TRUE
    /\ ev' = {"set_single_frame"}
    /\ sfEarly' = (sfEarly \/ ~started)
    /\ UNCHANGED <<kind, frames, source, pos, bufEnd, op, needs_data,
                   finished, finished_frame, fused, rpc, dstCap, result,
                   delivered, ended, sawErr, started, usedZeroCap, fed,
                   lastHint>>
    /\ UNCHANGED wvars
    /\ UNCHANGED bvars
    /\ UNCHANGED lvars

\* bufread.rs Decoder::read with a buffer of n bytes, up to the call of the
\* inner Reader.
DecoderRead(n) ==
    /\ kind = "zio"
    /\ rpc = "idle"
    /\ started' = TRUE
    /\ usedZeroCap' = (usedZeroCap \/ n = 0)
    /\ dstCap' = n
    /\ ev' = {"read"}
    /\ IF fused
       THEN ReturnOk(<<>>, n)
       ELSE /\ rpc' = "loop"
            /\ UNCHANGED <<result, delivered, ended, sawErr>>
    /\ UNCHANGED <<kind, frames, source, pos, bufEnd, op, needs_data,
                   finished, finished_frame, single_frame, fused, sfEarly,
                   fed, lastHint>>
    /\ UNCHANGED wvars
    /\ UNCHANGED bvars
    /\ UNCHANGED lvars

\* One iteration of the loop of zio.rs Reader::read, fill_buf returning the
\* window that ends at e; when the loop returns, the rest of bufread.rs
\* Decoder::read.
ZioIter(e) ==
    /\ kind = "zio"
    /\ rpc = "loop"
    /\ bufEnd' = e
    /\ LET src == Window(e)
           eof == (src = <<>>)
       IN  IF eof /\ ~AcceptsEof(needs_data)
           THEN /\ ReturnErr("UnexpectedEof")
                /\ ev' = {"fill_buf"}
                /\ UNCHANGED <<pos, op, needs_data, fused, fed, lastHint>>
           ELSE LET r == IF eof THEN DecFinish(op, dstCap)
                                ELSE DecRun(op, src, dstCap)
                    step == IF eof THEN "finish" ELSE "run"
                    nd == NeedsDataAfter(eof, r.hint, needs_data)
                IN  IF r.err
                    THEN /\ ReturnErr("Codec")
                         /\ ev' = {"fill_buf", step}
                         /\ pos' = pos + ConsumedOnError(r.rd, Len(src))
                         /\ UNCHANGED <<op, needs_data, fused, fed, lastHint>>
                    ELSE /\ op' = OpState(r)
                         /\ needs_data' = nd
                         /\ pos' = pos + Consumed(r.rd, Len(src))
                         /\ fed' = fed \o SubSeq(src, 1, r.rd)
                         /\ lastHint' = IF eof THEN lastHint ELSE r.hint
                         /\ ev' = {"fill_buf", step, "consume"}
                         /\ IF ZioDone(Len(r.out), eof, dstCap)
                            THEN /\ ReturnOk(r.out, dstCap)
                                 /\ fused' = FusedAfter(fused, single_frame, nd)
                            ELSE /\ KeepLooping
                                 /\ fused' = fused
    /\ UNCHANGED <<kind, frames, source, finished, finished_frame,
                   single_frame, dstCap, started, sfEarly, usedZeroCap>>
    /\ UNCHANGED wvars
    /\ UNCHANGED bvars
    /\ UNCHANGED lvars

\* An iteration of the loop of zio.rs Reader::read in which fill_buf
\* returns an error of the source.
ZioFillError ==
    /\ kind = "zio"
    /\ rpc = "loop"
    /\ ReturnErr("Io")
    /\ ev' = {"fill_buf"}
    /\ UNCHANGED <<kind, frames, source, pos, bufEnd, op, needs_data,
                   finished, finished_frame, single_frame, fused, dstCap,
                   started, sfEarly, usedZeroCap, fed, lastHint>>
    /\ UNCHANGED wvars
    /\ UNCHANGED bvars
    /\ UNCHANGED lvars

(* -------------------- stream/zio/reader.rs Reader --------------------- *)

\* A Reader that does not look at finished on entry.
AlreadyFinishedNever(fin) == FALSE

\* The test that opens Reader::read.
AlreadyFinished(fin) == fin

\* finished after a run call that returned hint.
FinishedAfterRun(fin, hint, sf) == fin \/ (hint = 0 /\ sf)

\* A Reader that takes the first return of operation.finish for the last.
FinishedAfterFinishAny(fin, hint) == TRUE

\* finished after a finish call that returned hint.
FinishedAfterFinish(fin, hint) == fin \/ hint = 0

\* The Reader is generic over its Operation: it wraps the Decoder, or the
\* Encoder when kind is "zio_reader_enc".
ReaderKinds == {"zio_reader", "zio_reader_enc"}

OpResult(st, rd, out, hint, err) ==
    [st |-> st, rd |-> rd, out |-> out, hint |-> hint, err |-> err]

\* self.operation.run(&mut src, &mut dst)
RunOp(k, st, src, cap) ==
    IF k = "zio_reader_enc"
    THEN LET r == EncRun(st, src, cap)
         IN  OpResult(r.st, r.rd, r.out, r.hint, FALSE)
    ELSE LET r == DecRun(st, src, cap)
         IN  OpResult(OpState(r), r.rd, r.out, r.hint, r.err)

\* self.operation.finish(&mut dst)
FinishOp(k, st, cap) ==
    IF k = "zio_reader_enc"
    THEN LET r == EncFinish(st, cap)
         IN  OpResult(r.st, r.rd, r.out, r.hint, FALSE)
    ELSE LET r == DecFinish(st, cap)
         IN  OpResult(OpState(r), r.rd, r.out, r.hint, r.err)

\* Reader::set_single_frame, as the design describes it: a one-way switch.
ReaderSetSingleFrame ==
    /\ kind = "zio_reader"
    /\ rpc = "idle"
    /\ single_frame' = TRUE
    /\ ev' = {"set_single_frame"}
    /\ sfEarly' = (sfEarly \/ ~started)
    /\ UNCHANGED <<kind, frames, source, pos, bufEnd, op, needs_data,
                   finished, finished_frame, fused, rpc, dstCap, result,
                   delivered, ended, sawErr, started, usedZeroCap, fed,
                   lastHint>>
    /\ UNCHANGED wvars
    /\ UNCHANGED bvars
    /\ UNCHANGED lvars

\* Reader::read with a buffer of n bytes, up to its loop.
ReaderRead(n) ==
    /\ kind \in ReaderKinds
    /\ rpc = "idle"
    /\ started' = TRUE
    /\ usedZeroCap' = (usedZeroCap \/ n = 0)
    /\ dstCap' = n
    /\ IF AlreadyFinished(finished)
       THEN /\ ReturnOk(<<>>, n)
            /\ ev' = {"read"}
            /\ UNCHANGED <<op, finished_frame>>
       ELSE /\ rpc' = "loop"
            /\ UNCHANGED <<result, delivered, ended, sawErr>>
            /\ IF finished_frame
               THEN /\ op' = DecReinit(op)
                    /\ finished_frame' = FALSE
                    /\ ev' = {"read", "reinit"}
               ELSE /\ ev' = {"read"}
                    /\ UNCHANGED <<op, finished_frame>>
    /\ UNCHANGED <<kind, frames, source, pos, bufEnd, needs_data, finished,
                   single_frame, fused, sfEarly, fed, lastHint>>
    /\ UNCHANGED wvars
    /\ UNCHANGED bvars
    /\ UNCHANGED lvars

\* One iteration of the loop of Reader::read, fill_buf returning the window
\* that ends at e.
ReaderIter(e) ==
    /\ kind \in ReaderKinds
    /\ rpc = "loop"
    /\ bufEnd' = e
    /\ LET src == Window(e)
           eof == (src = <<>>)
           r == IF eof THEN FinishOp(kind, op, dstCap)
                       ELSE RunOp(kind, op, src, dstCap)
       IN  IF r.err
           THEN /\ ReturnErr("Codec")
                /\ ev' = {"fill_buf", IF eof THEN "finish" ELSE "run"}
                /\ UNCHANGED <<pos, op, finished, finished_frame, fed,
                               lastHint>>
           ELSE IF ~eof
           THEN /\ op' = r.st
                /\ finished_frame' = (finished_frame \/ r.hint = 0)
                /\ finished' = FinishedAfterRun(finished, r.hint, single_frame)
                /\ pos' = pos + Consumed(r.rd, Len(src))
                /\ fed' = fed \o SubSeq(src, 1, r.rd)
                /\ lastHint' = r.hint
                /\ ev' = {"fill_buf", "run", "consume"}
                /\ IF Len(r.out) > 0 THEN ReturnOk(r.out, dstCap)
                                     ELSE KeepLooping
           ELSE /\ op' = r.st
                /\ finished' = FinishedAfterFinish(finished, r.hint)
                /\ UNCHANGED <<pos, finished_frame, fed, lastHint>>
                /\ IF Len(r.out) = 0
                   THEN /\ ev' = {"fill_buf", "finish"}
                        /\ IF r.hint = 0 THEN ReturnOk(<<>>, dstCap)
                                         ELSE ReturnErr("UnexpectedEof")
                   ELSE /\ ev' = {"fill_buf", "finish", "consume"}
                        /\ ReturnOk(r.out, dstCap)
    /\ UNCHANGED <<kind, frames, source, needs_data, single_frame, fused,
                   dstCap, started, sfEarly, usedZeroCap>>
    /\ UNCHANGED wvars
    /\ UNCHANGED bvars
    /\ UNCHANGED lvars

(* ------------------------ stream/zio.rs Writer ------------------------ *)

\* A Writer that sends the staging buffer from its start again.
PendingSliceFromStart(buf, off) == SubSeq(buf, 1, Len(buf) - off)

\* &self.buffer[self.offset..]
PendingSlice(buf, off) == SubSeq(buf, off + 1, Len(buf))

\* An offset that stays where it was when the sink accepted bytes.
OffsetAfterStuck(off, consumed) == off

\* self.offset after the sink accepted consumed bytes.
OffsetAfter(off, consumed) == off + consumed

\* A drain that reports Ok with staged bytes left.
DrainLax(buf, off, snk, k) ==
    [offset |-> off + k,
     sink   |-> snk \o SubSeq(buf, off + 1, off + k),
     ok     |-> TRUE]

\* Writer::write_from_offset when the sink accepts k bytes in all before
\* the loop ends: it ends Ok when nothing is left, and with an error (the
\* sink's own, or WriteZero when it accepted nothing) otherwise.
Drain(buf, off, snk, k) ==
    [offset |-> OffsetAfter(off, k),
     sink   |-> snk \o SubSeq(PendingSlice(buf, off), 1, k),
     ok     |-> (k = Len(buf) - off)]

\* The values k can take, and the errors that end a drain early.
Accepts(buf, off) == 0..(Len(buf) - off)

DrainErrors == {"Io", "WriteZero"}

\* A write that returns after its first run call whatever it consumed.
WriteDoneAlways(bytes_read, buf) == TRUE

\* A write that goes on after the operation took bytes of buf.
WriteDoneWhenEmpty(bytes_read, buf) == buf = <<>>

\* The condition that ends the loop of Writer::write.
WriteDone(bytes_read, buf) == bytes_read # 0 \/ buf = <<>>

\* A finish that takes the first return of operation.finish for the last.
FinishedAfterAny(hint) == TRUE

\* Writer.finished after operation.finish returned hint.
FinishedAfter(hint) == (hint = 0)

WriterNew ==
    /\ wpos = 0
    /\ sink = <<>>
    /\ enc = EncInit
    /\ offset = 0
    /\ buffer = <<>>
    /\ wfinished = FALSE
    /\ wpc = "idle"
    /\ wbuf = <<>>
    /\ wresult = [tag |-> "none", n |-> 0]
    /\ wev = {}
    /\ produced = <<>>
    /\ taken = <<>>

\* The mark a step leaves in wev when it is the entry of a call.
CallMark(pc) == IF pc = "idle" THEN {"call"} ELSE {}

WReturn(tag, n) ==
    /\ wpc' = "idle"
    /\ wresult' = [tag |-> tag, n |-> n]
    /\ wpos' = wpos + n

\* What operation.run may return to the Writer: Ok, or the engine's error.
RunOutcomes == {"ok", "Codec"}

\* <Encoder as Operation>::run when the engine fails: both cursors stay
\* where they were, as the engine moves them only at the end of a step
\* that succeeds.
EncRunFails(st) == EncResult(st, 0, <<>>, 0)

\* One iteration of the loop of Writer::write(buf): the first drain takes
\* k bytes to the sink and ends with error err when it ends early; run is
\* what operation.run returns when it is reached.
WriteLoop(buf, k, err, run) ==
    LET d == Drain(buffer, offset, sink, k)
    IN  IF ~d.ok
        THEN /\ offset' = d.offset
             /\ sink' = d.sink
             /\ wev' = {"write", "sink"} \cup CallMark(wpc)
             /\ wbuf' = buf
             /\ WReturn(err, 0)
             /\ UNCHANGED <<enc, buffer, wfinished, produced, taken>>
        ELSE IF run # "ok"
        THEN LET r == EncRunFails(enc)
             IN  /\ sink' = d.sink
                 /\ enc' = r.st
                 /\ offset' = 0
                 /\ buffer' = r.out
                 /\ produced' = produced \o r.out
                 /\ taken' = taken \o SubSeq(buf, 1, r.rd)
                 /\ wev' = {"write", "run"} \cup CallMark(wpc) \cup
                           (IF k > 0 THEN {"sink"} ELSE {})
                 /\ UNCHANGED wfinished
                 /\ wbuf' = buf
                 /\ WReturn(run, 0)
        ELSE LET r == EncRun(enc, buf, WCap)
             IN  /\ sink' = d.sink
                 /\ enc' = r.st
                 /\ offset' = 0
                 /\ buffer' = r.out
                 /\ produced' = produced \o r.out
                 /\ taken' = taken \o SubSeq(buf, 1, r.rd)
                 /\ wev' = {"write", "run"} \cup CallMark(wpc) \cup
                           (IF k > 0 THEN {"sink"} ELSE {})
                 /\ UNCHANGED wfinished
                 /\ wbuf' = buf
                 /\ IF WriteDone(r.rd, buf)
                    THEN WReturn("ok", r.rd)
                    ELSE /\ wpc' = "write"
                         /\ UNCHANGED <<wresult, wpos>>

\* <Writer as Write>::write with the next n bytes of the input, through the
\* first iteration of its loop.
WriterWrite(n, k, err, run) ==
    /\ wpc = "idle"
    /\ WriteLoop(SubSeq(input, wpos + 1, wpos + n), k, err, run)
    /\ UNCHANGED input
    /\ UNCHANGED rvars
    /\ UNCHANGED bvars
    /\ UNCHANGED lvars

\* A further iteration of the loop of <Writer as Write>::write.
WriterWriteAgain(k, err, run) ==
    /\ wpc = "write"
    /\ WriteLoop(wbuf, k, err, run)
    /\ UNCHANGED input
    /\ UNCHANGED rvars
    /\ UNCHANGED bvars
    /\ UNCHANGED lvars

\* <Writer as Write>::flush: the drains take k1 and k2 bytes to the sink.
WriterFlush(k1, k2, err) ==
    /\ wpc = "idle"
    /\ LET d1 == Drain(buffer, offset, sink, k1)
       IN  IF ~d1.ok
           THEN /\ offset' = d1.offset
                /\ sink' = d1.sink
                /\ wev' = {"flush", "sink"} \cup CallMark(wpc)
                /\ WReturn(err, 0)
                /\ UNCHANGED <<enc, buffer, produced>>
           ELSE LET r  == EncFlush(enc, WCap)
                    d2 == Drain(r.out, 0, d1.sink, Min(k2, Len(r.out)))
                IN  /\ enc' = r.st
                    /\ buffer' = r.out
                    /\ produced' = produced \o r.out
                    /\ offset' = d2.offset
                    /\ sink' = d2.sink
                    /\ wev' = {"flush", "op_flush"} \cup CallMark(wpc) \cup
                              (IF k1 > 0 \/ r.out # <<>> THEN {"sink"} ELSE {})
                    /\ WReturn(IF d2.ok THEN "ok" ELSE err, 0)
    /\ wbuf' = <<>>
    /\ UNCHANGED <<input, wfinished, taken>>
    /\ UNCHANGED rvars
    /\ UNCHANGED bvars
    /\ UNCHANGED lvars

\* A finish that looks at finished only after it stepped the operation.
FinishReturnsAfterStep(fin, pc) == fin /\ pc = "finish"

\* The test `if self.finished` that ends Writer::finish, at the top of an
\* iteration reached at position pc of the caller.
FinishReturns(fin, pc) == fin

\* One iteration of the loop of Writer::finish: the drains take k1 and k2
\* bytes to the sink.
FinishLoop(k1, k2, err) ==
    LET d1 == Drain(buffer, offset, sink, k1)
    IN  IF ~d1.ok
        THEN /\ offset' = d1.offset
             /\ sink' = d1.sink
             /\ wev' = {"finish", "sink"} \cup CallMark(wpc)
             /\ WReturn(err, 0)
             /\ UNCHANGED <<enc, buffer, wfinished, produced>>
        ELSE IF FinishReturns(wfinished, wpc)
        THEN /\ offset' = d1.offset
             /\ sink' = d1.sink
             /\ wev' = {"finish"} \cup CallMark(wpc) \cup
                       (IF k1 > 0 THEN {"sink"} ELSE {})
             /\ WReturn("ok", 0)
             /\ UNCHANGED <<enc, buffer, wfinished, produced>>
        ELSE LET r  == EncFinish(enc, WCap)
                 d2 == Drain(r.out, 0, d1.sink, Min(k2, Len(r.out)))
             IN  /\ enc' = r.st
                 /\ buffer' = r.out
                 /\ produced' = produced \o r.out
                 /\ wfinished' = FinishedAfter(r.hint)
                 /\ offset' = d2.offset
                 /\ sink' = d2.sink
                 /\ wev' = {"finish", "op_finish"} \cup CallMark(wpc) \cup
                           (IF k1 > 0 \/ r.out # <<>> THEN {"sink"} ELSE {})
                 /\ IF d2.ok
                    THEN /\ wpc' = "finish"
                         /\ UNCHANGED <<wresult, wpos>>
                    ELSE WReturn(err, 0)

\* Writer::finish, through the first iteration of its loop.
WriterFinish(k1, k2, err) ==
    /\ wpc = "idle"
    /\ FinishLoop(k1, k2, err)
    /\ wbuf' = <<>>
    /\ UNCHANGED <<input, taken>>
    /\ UNCHANGED rvars
    /\ UNCHANGED bvars
    /\ UNCHANGED lvars

\* A further iteration of the loop of Writer::finish.
WriterFinishAgain(k1, k2, err) ==
    /\ wpc = "finish"
    /\ FinishLoop(k1, k2, err)
    /\ wbuf' = <<>>
    /\ UNCHANGED <<input, taken>>
    /\ UNCHANGED rvars
    /\ UNCHANGED bvars
    /\ UNCHANGED lvars

(* ---------------------- encoder.rs (legacy Encoder) ------------------- *)

\* The legacy Encoder keeps its compressed output in buffer, forwards it
\* to its writer (sink) and drives the engine (enc) through the
\* buffered-stream calls; input, wpos, produced, taken, wresult and wev
\* play the part they play for the Writer.

\* A context that is never released.
FreeCtxNever(c) == c

\* <EncoderContext as Drop>::drop: ZBUFF_freeCCtx on the context.
FreeCtx(c) == [state |-> "freed", frees |-> c.frees + 1]

\* EncoderContext::new: ZBUFF_createCCtx.
NewCtx == [state |-> "live", frees |-> 0]

LegacyNone ==
    /\ lstate = "none"
    /\ ctx = [state |-> "none", frees |-> 0]

\* What ZBUFF_compressInit / ZBUFF_compressInitDictionary may return.
InitOutcomes == {"ok", "Codec"}

\* The values an unwritten byte of memory may be read as (two stand for
\* all).
Uninit == {"A", "X"}

\* writer.write_all(buf) on a writer that accepts budget more bytes before
\* it fails: all of buf goes out, or its first budget bytes do.
WriteAll(buf, snk, budget) ==
    IF Len(buf) <= budget
    THEN [sink |-> snk \o buf, ok |-> TRUE, left |-> budget - Len(buf)]
    ELSE [sink |-> snk \o SubSeq(buf, 1, budget), ok |-> FALSE, left |-> 0]

\* Encoder::new and Encoder::with_dictionary (how names the one called):
\* a context is created, the engine initialised, and on its error the
\* context is dropped with the early return.
LegacyNew(how, init) ==
    /\ lstate = "none"
    /\ wev' = {how, "engine"} \cup (IF init = "ok" THEN {} ELSE {"free"})
    /\ IF init = "ok"
       THEN /\ lstate' = "live"
            /\ ctx' = NewCtx
            /\ wresult' = [tag |-> "ok", n |-> 0]
       ELSE /\ lstate' = "failed"
            /\ ctx' = FreeCtx(NewCtx)
            /\ wresult' = [tag |-> init, n |-> 0]
    /\ enc' = EncInit
    /\ buffer' = <<>>
    /\ UNCHANGED <<input, wpos, sink, offset, wfinished, wpc, wbuf, produced,
                   taken>>
    /\ UNCHANGED <<rvars, bvars>>

\* The loop of <Encoder as Write>::write on buf from cursor read: each
\* turn compresses the rest of buf into the output buffer and forwards the
\* buffer whole; the sink fails once budget bytes went out.
RECURSIVE LegacyWriteLoop(_, _, _, _, _, _, _)
LegacyWriteLoop(st, buf, read, snk, prod, last, budget) ==
    IF read = Len(buf)
    THEN [ok |-> TRUE, st |-> st, read |-> read, sink |-> snk,
          produced |-> prod, buffer |-> last, rd |-> read]
    ELSE LET r == EncRun(st, SubSeq(buf, read + 1, Len(buf)), WCap)
             w == WriteAll(r.out, snk, budget)
         IN  IF ~w.ok
             THEN [ok |-> FALSE, st |-> r.st, read |-> read, sink |-> w.sink,
                   produced |-> prod \o r.out, buffer |-> r.out,
                   rd |-> read + r.rd]
             ELSE LegacyWriteLoop(r.st, buf, read + r.rd, w.sink,
                                  prod \o r.out, r.out, w.left)

\* <Encoder as Write>::write with the next n bytes of the input; after a
\* write that failed the caller submits its bytes again, and the engine is
\* given MaxInput bytes at most in all.
LegacyWrite(n, budget, err) ==
    /\ lstate = "live"
    /\ Len(taken) + n <= MaxInput
    /\ LET buf == SubSeq(input, wpos + 1, wpos + n)
           l == LegacyWriteLoop(enc, buf, 0, sink, produced, buffer, budget)
       IN  /\ enc' = l.st
           /\ sink' = l.sink
           /\ produced' = l.produced
           /\ buffer' = l.buffer
           /\ taken' = taken \o SubSeq(buf, 1, l.rd)
           /\ wev' = {"write"} \cup (IF n > 0 THEN {"engine"} ELSE {})
                       \cup (IF l.sink # sink \/ ~l.ok THEN {"sink"} ELSE {})
           /\ IF l.ok
              THEN /\ wresult' = [tag |-> "ok", n |-> l.read]
                   /\ wpos' = wpos + l.read
              ELSE /\ wresult' = [tag |-> err, n |-> 0]
                   /\ wpos' = wpos
    /\ UNCHANGED <<input, offset, wfinished, wpc, wbuf, lstate, ctx>>
    /\ UNCHANGED <<rvars, bvars>>

\* The buffer after set_len(written) in flush, the engine having written
\* out: its first written bytes, which past the end of out are bytes no
\* call wrote.
FlushedBuffers(out, written) ==
    IF written <= Len(out)
    THEN {SubSeq(out, 1, written)}
    ELSE {out \o junk : junk \in [1..(written - Len(out)) -> Uninit]}

\* <Encoder as Write>::flush.
LegacyFlush(budget, err) ==
    /\ lstate = "live"
    /\ LET r == EncFlush(enc, WCap)
       IN  /\ enc' = r.st
           /\ produced' = produced \o r.out
           /\ \E b \in FlushedBuffers(r.out, r.hint) :
                  LET w == WriteAll(b, sink, budget)
                  IN  /\ buffer' = b
                      /\ sink' = w.sink
                      /\ wev' = {"flush", "engine"} \cup
                                (IF b # <<>> THEN {"sink"} ELSE {})
                      /\ wresult' = [tag |-> IF w.ok THEN "ok" ELSE err,
                                     n |-> 0]
    /\ UNCHANGED <<input, wpos, offset, wfinished, wpc, wbuf, taken, lstate,
                   ctx>>
    /\ UNCHANGED <<rvars, bvars>>

\* Encoder::finish: one end step, a panic when the engine has bytes left,
\* else the buffer goes to the writer; self is dropped on every way out,
\* but for a panic that aborts instead of unwinding.
LegacyFinish(budget, err, unwind) ==
    /\ lstate = "live"
    /\ LET r == EncFinish(enc, WCap)
       IN  /\ enc' = r.st
           /\ buffer' = r.out
           /\ produced' = produced \o r.out
           /\ IF r.hint # 0
              THEN /\ lstate' = "panicked"
                   /\ ctx' = IF unwind THEN FreeCtx(ctx) ELSE ctx
                   /\ wresult' = [tag |-> "panic", n |-> 0]
                   /\ wev' = {"finish", "engine"} \cup
                             (IF unwind THEN {"free"} ELSE {})
                   /\ UNCHANGED sink
              ELSE LET w == WriteAll(r.out, sink, budget)
                   IN  /\ lstate' = IF w.ok THEN "finished"
                                            ELSE "finish_failed"
                       /\ ctx' = FreeCtx(ctx)
                       /\ sink' = w.sink
                       /\ wresult' = [tag |-> IF w.ok THEN "ok" ELSE err,
                                      n |-> 0]
                       /\ wev' = {"finish", "engine", "free"} \cup
                                 (IF r.out # <<>> THEN {"sink"} ELSE {})
    /\ UNCHANGED <<input, wpos, offset, wfinished, wpc, wbuf, taken>>
    /\ UNCHANGED <<rvars, bvars>>

\* The Encoder goes out of scope without finish.
LegacyDrop ==
    /\ lstate = "live"
    /\ lstate' = "dropped"
    /\ ctx' = FreeCtx(ctx)
    /\ wev' = {"drop", "free"}
    /\ UNCHANGED <<input, wpos, sink, enc, offset, buffer, wfinished, wpc,
                   wbuf, wresult, produced, taken>>
    /\ UNCHANGED <<rvars, bvars>>

(* ------------------------- block functions ---------------------------- *)

\* "A level of `0` uses zstd's default (currently `3`)."
DefaultLevel == 3

EffectiveLevel(level) == IF level = 0 THEN DefaultLevel ELSE level

\* The engine's encoding of two equal plaintext bytes in a row, which it
\* finds from level 2 on, and its inverse.
Tok2 == [p \in Plain |-> IF p = "a" THEN "AA" ELSE "BB"]

Untok2 == [t \in {"AA", "BB"} |-> IF t = "AA" THEN <<"a", "a">>
                                              ELSE <<"b", "b">>]

\* The payload of the frame of x at a level.
RECURSIVE BlockEnc(_, _)
BlockEnc(x, level) ==
    IF x = <<>> THEN <<>>
    ELSE IF level >= 2 /\ Len(x) >= 2 /\ x[1] = x[2]
    THEN <<Tok2[x[1]]>> \o BlockEnc(SubSeq(x, 3, Len(x)), level)
    ELSE <<Tok[x[1]]>> \o BlockEnc(Tail(x), level)

\* The plaintext of a payload, and whether every token of it is one of the
\* engine's.
RECURSIVE BlockDec(_)
BlockDec(ts) ==
    IF ts = <<>> THEN <<>>
    ELSE IF Head(ts) \in DOMAIN Untok
    THEN <<Untok[Head(ts)]>> \o BlockDec(Tail(ts))
    ELSE IF Head(ts) \in DOMAIN Untok2
    THEN Untok2[Head(ts)] \o BlockDec(Tail(ts))
    ELSE BlockDec(Tail(ts))

BlockWellFormed(data) ==
    /\ Len(data) >= 2
    /\ data[1] = "H"
    /\ data[Len(data)] = "E"
    /\ \A i \in 2..(Len(data) - 1) :
           data[i] \in DOMAIN Untok \cup DOMAIN Untok2

BlockOk(bytes) == [tag |-> "ok", bytes |-> bytes]

BlockErr(tag) == [tag |-> tag, bytes |-> <<>>]

\* Compressor::new().compress(data, level), as the design describes the
\* block interface: one whole frame, from a context made for this call.
CompressorCompress(data, level) ==
    BlockOk(<<"H">> \o BlockEnc(data, EffectiveLevel(level)) \o <<"E">>)

\* Decompressor::new().decompress(data, capacity), as the design describes
\* it: the whole plaintext, CodecError for bytes that are no frame, and
\* BufferTooSmall when the plaintext is longer than capacity.
DecompressorDecompress(data, capacity) ==
    IF ~BlockWellFormed(data)
    THEN BlockErr("Codec")
    ELSE LET x == BlockDec(SubSeq(data, 2, Len(data) - 1))
         IN  IF Len(x) > capacity THEN BlockErr("BufferTooSmall")
             ELSE BlockOk(x)

\* block::compress
compress(data, level) == CompressorCompress(data, level)

\* A decompress that leaves a byte of the capacity unused.
decompressShort(data, capacity) == DecompressorDecompress(data, capacity - 1)

\* block::decompress
decompress(data, capacity) == DecompressorDecompress(data, capacity)

BlockNew ==
    /\ bdata = <<>>
    /\ blevel = 0
    /\ bcomp = [tag |-> "none", bytes |-> <<>>]
    /\ bcap = 0
    /\ bplain = [tag |-> "none", bytes |-> <<>>]
    /\ bcalls = 0

\* The inputs of the block functions.
BlockInputs == UNION {[1..n -> Plain] : n \in 0..MaxBlock}

\* A call of block::compress.
BlockCompress(x, level) ==
    /\ bcalls < MaxCalls
    /\ bcalls' = bcalls + 1
    /\ bdata' = x
    /\ blevel' = level
    /\ bcomp' = compress(x, level)
    /\ bplain' = [tag |-> "none", bytes |-> <<>>]
    /\ UNCHANGED bcap
    /\ UNCHANGED <<rvars, wvars, lvars>>

\* A call of block::decompress on what block::compress returned last.
BlockDecompress(capacity) ==
    /\ bcomp.tag = "ok"
    /\ bcap' = capacity
    /\ bplain' = decompress(bcomp.bytes, capacity)
    /\ UNCHANGED <<bdata, blevel, bcomp, bcalls>>
    /\ UNCHANGED <<rvars, wvars, lvars>>

(* ----------------------- the readers' behaviours ---------------------- *)

InitReader ==
    /\ kind \in {"zio", "zio_reader"}
    /\ frames \in FrameLists
    /\ source \in Sources(frames)
    /\ pos = 0
    /\ bufEnd = 0
    /\ op = DecInit
    /\ needs_data = TRUE
    /\ finished = FALSE
    /\ finished_frame = FALSE
    /\ single_frame = FALSE
    /\ fused = FALSE
    /\ rpc = "idle"
    /\ dstCap = 0
    /\ result = [tag |-> "none", n |-> 0]
    /\ ev = {}
    /\ delivered = <<>>
    /\ ended = FALSE
    /\ sawErr = FALSE
    /\ started = FALSE
    /\ sfEarly = FALSE
    /\ usedZeroCap = FALSE
    /\ fed = <<>>
    /\ lastHint = -1
    /\ input = <<>>
    /\ WriterNew
    /\ BlockNew
    /\ LegacyNone

NextReader ==
    \/ SetSingleFrame
    \/ ReaderSetSingleFrame
    \/ \E n \in 0..MaxDst : DecoderRead(n)
    \/ \E n \in 0..MaxDst : ReaderRead(n)
    \/ \E e \in FillEnds : ZioIter(e)
    \/ \E e \in FillEnds : ReaderIter(e)

SpecReader == InitReader /\ [][NextReader]_vars

(* ------------ zio.rs Reader over a source that may fail --------------- *)

\* The source holds one whole frame, followed or not by a byte that is no
\* frame header.
InitReaderIo ==
    /\ InitReader
    /\ kind = "zio"
    /\ Len(frames) = 1
    /\ source \in {Encode(frames), Encode(frames) \o <<"X">>}

NextReaderIo ==
    \/ SetSingleFrame
    \/ \E n \in 0..MaxDst : DecoderRead(n)
    \/ \E e \in FillEnds : ZioIter(e)
    \/ ZioFillError

SpecReaderIo == InitReaderIo /\ [][NextReaderIo]_vars

(* ------------- zio/reader.rs Reader around the Encoder ---------------- *)

\* The Reader compresses: its source holds plaintext, frames names that
\* plaintext, and the operation is a fresh Encoder.
InitEncReader ==
    /\ kind = "zio_reader_enc"
    /\ source \in {Pattern("a", n) : n \in 0..MaxInput}
    /\ frames = <<source>>
    /\ pos = 0
    /\ bufEnd = 0
    /\ op = EncInit
    /\ needs_data = TRUE
    /\ finished = FALSE
    /\ finished_frame = FALSE
    /\ single_frame = FALSE
    /\ fused = FALSE
    /\ rpc = "idle"
    /\ dstCap = 0
    /\ result = [tag |-> "none", n |-> 0]
    /\ ev = {}
    /\ delivered = <<>>
    /\ ended = FALSE
    /\ sawErr = FALSE
    /\ started = FALSE
    /\ sfEarly = FALSE
    /\ usedZeroCap = FALSE
    /\ fed = <<>>
    /\ lastHint = -1
    /\ input = <<>>
    /\ WriterNew
    /\ BlockNew
    /\ LegacyNone

NextEncReader ==
    \/ \E n \in 0..MaxDst : ReaderRead(n)
    \/ \E e \in FillEnds : ReaderIter(e)

SpecEncReader == InitEncReader /\ [][NextEncReader]_vars

(* ----------------------- the Writer's behaviours ---------------------- *)

InitWriter ==
    /\ input \in {Pattern("a", n) : n \in 0..MaxInput}
    /\ WriterNew
    /\ kind = "zio"
    /\ frames = <<<<>>>>
    /\ source = <<>>
    /\ pos = 0
    /\ bufEnd = 0
    /\ op = DecInit
    /\ needs_data = TRUE
    /\ finished = FALSE
    /\ finished_frame = FALSE
    /\ single_frame = FALSE
    /\ fused = FALSE
    /\ rpc = "idle"
    /\ dstCap = 0
    /\ result = [tag |-> "none", n |-> 0]
    /\ ev = {}
    /\ delivered = <<>>
    /\ ended = FALSE
    /\ sawErr = FALSE
    /\ started = FALSE
    /\ sfEarly = FALSE
    /\ usedZeroCap = FALSE
    /\ fed = <<>>
    /\ lastHint = -1
    /\ BlockNew
    /\ LegacyNone

\* The drains of one step: k bytes accepted, and the error that ends the
\* drain when fewer than all pending bytes were.
NextWriter ==
    \/ \E n \in 0..(Len(input) - wpos), k \in Accepts(buffer, offset),
          err \in DrainErrors, run \in RunOutcomes : WriterWrite(n, k, err, run)
    \/ \E k \in Accepts(buffer, offset), err \in DrainErrors,
          run \in RunOutcomes : WriterWriteAgain(k, err, run)
    \/ \E k1 \in Accepts(buffer, offset), k2 \in 0..WCap, err \in DrainErrors :
          WriterFlush(k1, k2, err)
    \/ \E k1 \in Accepts(buffer, offset), k2 \in 0..WCap, err \in DrainErrors :
          WriterFinish(k1, k2, err)
    \/ \E k1 \in Accepts(buffer, offset), k2 \in 0..WCap, err \in DrainErrors :
          WriterFinishAgain(k1, k2, err)

SpecWriter == InitWriter /\ [][NextWriter]_vars

(* ------------------- the block functions' behaviours ------------------ *)

InitBlock == InitWriter /\ input = <<>>

NextBlock ==
    \/ \E x \in BlockInputs, level \in 0..MaxLevel : BlockCompress(x, level)
    \/ \E capacity \in 0..MaxBlock : BlockDecompress(capacity)

SpecBlock == InitBlock /\ [][NextBlock]_vars

(* ------------------- the legacy Encoder's behaviours ------------------ *)

InitLegacy == InitWriter

NextLegacy ==
    \/ \E how \in {"new", "with_dictionary"}, init \in InitOutcomes :
          LegacyNew(how, init)
    \/ \E n \in 0..(Len(input) - wpos), budget \in 0..MaxSink,
          err \in DrainErrors : LegacyWrite(n, budget, err)
    \/ \E budget \in 0..MaxSink, err \in DrainErrors :
          LegacyFlush(budget, err)
    \/ \E budget \in 0..MaxSink, err \in DrainErrors, unwind \in BOOLEAN :
          LegacyFinish(budget, err, unwind)
    \/ LegacyDrop

SpecLegacy == InitLegacy /\ [][NextLegacy]_vars

(* ----------------- calls of the adapters run to their end ------------- *)

\* A Writer, alone: no Reader acts on its state.
InitLiveWriter ==
    /\ input \in {Pattern("a", n) : n \in 0..MaxInput}
    /\ WriterNew
    /\ kind = "writer"
    /\ frames = <<<<>>>>
    /\ source = <<>>
    /\ pos = 0
    /\ bufEnd = 0
    /\ op = DecInit
    /\ needs_data = TRUE
    /\ finished = FALSE
    /\ finished_frame = FALSE
    /\ single_frame = FALSE
    /\ fused = FALSE
    /\ rpc = "idle"
    /\ dstCap = 0
    /\ result = [tag |-> "none", n |-> 0]
    /\ ev = {}
    /\ delivered = <<>>
    /\ ended = FALSE
    /\ sawErr = FALSE
    /\ started = FALSE
    /\ sfEarly = FALSE
    /\ usedZeroCap = FALSE
    /\ fed = <<>>
    /\ lastHint = -1
    /\ BlockNew
    /\ LegacyNone

\* One adapter per behaviour: a decoding Reader of either kind over the
\* bytes of one frame, a Reader around the Encoder, or a Writer.
InitLive ==
    \/ InitReader /\ Len(frames) = 1
    \/ InitEncReader
    \/ InitLiveWriter

\* The next iteration of the loop of the call that is running.
LiveStep ==
    \/ \E e \in FillEnds : ZioIter(e)
    \/ ZioFillError
    \/ \E e \in FillEnds : ReaderIter(e)
    \/ kind = "writer" /\
       \E k \in Accepts(buffer, offset), err \in DrainErrors,
          run \in RunOutcomes : WriterWriteAgain(k, err, run)
    \/ kind = "writer" /\
       \E k1 \in Accepts(buffer, offset), k2 \in 0..WCap, err \in DrainErrors :
          WriterFinishAgain(k1, k2, err)

\* The calls the caller makes when none is running.
LiveCall ==
    \/ SetSingleFrame
    \/ ReaderSetSingleFrame
    \/ \E n \in 0..MaxDst : DecoderRead(n)
    \/ \E n \in 0..MaxDst : ReaderRead(n)
    \/ kind = "writer" /\
       \E n \in 0..(Len(input) - wpos), k \in Accepts(buffer, offset),
          err \in DrainErrors, run \in RunOutcomes : WriterWrite(n, k, err, run)
    \/ kind = "writer" /\
       \E k1 \in Accepts(buffer, offset), k2 \in 0..WCap, err \in DrainErrors :
          WriterFlush(k1, k2, err)
    \/ kind = "writer" /\
       \E k1 \in Accepts(buffer, offset), k2 \in 0..WCap, err \in DrainErrors :
          WriterFinish(k1, k2, err)

NextLive == LiveCall \/ LiveStep

\* A call that has started goes on: the thread that runs read, write or
\* finish executes the next iteration of the loop, while the caller is free
\* to make no further call.
SpecLive == InitLive /\ [][NextLive]_vars /\ WF_vars(LiveStep)

(* ------------------------------ claims -------------------------------- *)

Ok0 == [tag |-> "ok", n |-> 0]

\* The source holds exactly the frames it was built from.
Whole == source = Encode(frames)

\* The source stops in the middle of a frame.
MidFrame == source # <<>> /\ source[Len(source)] \notin {"E", "X"}

IsPrefix(s, t) == Len(s) <= Len(t) /\ s = SubSeq(t, 1, Len(s))

\* C1 (stream/zio.rs Reader): needs_data is true exactly when no run call
\* was made yet or the last one returned a nonzero hint; and an iteration of
\* read() that finds the source at its end while needs_data is true returns
\* Err(UnexpectedEof), calls neither operation.finish nor consume, and
\* leaves the source position, the operation and needs_data as they were.
C1_NeedsData == kind = "zio" => (needs_data <=> lastHint # 0)

C1_EofStep ==
    (kind = "zio" /\ rpc = "loop" /\ pos = Len(source) /\ needs_data)
        => /\ rpc' = "idle"
           /\ result' = [tag |-> "UnexpectedEof", n |-> 0]
           /\ "finish" \notin ev'
           /\ "consume" \notin ev'
           /\ UNCHANGED <<pos, op, needs_data, delivered>>

C1_TruncationIsAnError == [](C1_NeedsData) /\ [][C1_EofStep]_vars

\* C1 witness: a read() that had returned bytes of a frame before failed
\* with UnexpectedEof at the end of the source.
C1_Witness ==
    /\ kind = "zio"
    /\ rpc = "idle"
    /\ result.tag = "UnexpectedEof"
    /\ pos = Len(source)
    /\ lastHint > 0
    /\ delivered # <<>>

\* C2 (stream/zio/reader.rs Reader around raw::Decoder): when the source
\* stops in the middle of a frame and the last run call returned a nonzero
\* hint, the Reader never sets finished and never returns Ok(0) for a
\* non-empty buffer.
C2_TruncationIsAnError ==
    (kind = "zio_reader" /\ ~single_frame /\ ~usedZeroCap /\ MidFrame
        /\ lastHint > 0)
        => (~finished /\ ~ended)

\* C3: with two whole frames in the source, no single-frame mode and caller
\* buffers of at least one byte, no read() fails, and the bytes returned up
\* to the first Ok(0) are the first plaintext followed by the second.
C3_TwoFramesConcatenate ==
    (Whole /\ Len(frames) = 2 /\ ~single_frame /\ ~usedZeroCap)
        => (~sawErr /\ (ended => delivered = Flatten(frames)))

\* C4: with single-frame mode set before the first read() and two whole
\* frames in the source, no byte of the second frame is consumed, no read()
\* fails, the bytes returned up to the first Ok(0) are the first plaintext,
\* and every later read() returns Ok(0).
C4_SingleFrameStops ==
    (Whole /\ Len(frames) = 2 /\ sfEarly /\ ~usedZeroCap)
        => /\ pos <= Len(Frame(frames[1]))
           /\ ~sawErr
           /\ (ended => delivered = frames[1])
           /\ ((ended /\ rpc = "idle") => result = Ok0)

\* C5: for a source of whole frames, whatever the sizes (at least 1) of the
\* caller's buffers, no read() fails and the bytes returned up to the first
\* Ok(0) are the plaintexts of all frames: the outcome does not depend on
\* the buffer sizes, and output the operation still holds at the end of the
\* source is delivered.
C5_ChunkIndependent ==
    (Whole /\ ~single_frame /\ ~usedZeroCap)
        => (~sawErr /\ (ended => delivered = Flatten(frames)))

\* C6 (stream/zio.rs Writer): the bytes the sink accepted followed by the
\* staged bytes not yet sent are exactly the outputs of the operation's
\* steps in order, so the sink holds a prefix of them with nothing lost,
\* doubled or reordered; and when finish() has returned Ok the sink holds
\* all of them.
C6_SinkExact ==
    /\ offset <= Len(buffer)
    /\ produced = sink \o SubSeq(buffer, offset + 1, Len(buffer))
    /\ IsPrefix(sink, produced)
    /\ (wpc = "idle" /\ "finish" \in wev /\ wresult.tag = "ok")
           => sink = produced

\* C6 witness: a drain ended with an error after the sink had accepted a
\* part of the staged bytes.
C6_Witness ==
    /\ wpc = "idle"
    /\ wresult.tag \in DrainErrors
    /\ 0 < offset
    /\ offset < Len(buffer)
    /\ sink # <<>>

\* C7: the bytes the operation consumed, in order, are exactly the first
\* pos bytes of the source: consume is called with the input cursor's
\* advance, so no byte is skipped and none is given a second time.
C7_ConsumeExact ==
    /\ fed = SubSeq(source, 1, pos)
    /\ pos <= bufEnd
    /\ bufEnd <= Len(source)

\* C7 witness: a step consumed a part of the window it was given.
C7_Witness ==
    /\ rpc = "idle"
    /\ 0 < pos
    /\ pos < bufEnd
    /\ "consume" \in ev

\* C8 (stream/zio/reader.rs Reader): a read() entered with finished = true
\* returns Ok(0), calls nothing on the source or the operation and changes
\* no flag; and finished never goes back to false.
C8_ReadWhenFinished ==
    (kind = "zio_reader" /\ finished /\ rpc = "idle" /\ "read" \in ev')
        => /\ rpc' = "idle"
           /\ result' = Ok0
           /\ ev' = {"read"}
           /\ UNCHANGED <<pos, bufEnd, op, finished, finished_frame,
                          single_frame, fed>>

C8_IdempotentEnd ==
    [][C8_ReadWhenFinished /\ (finished => finished')]_vars

\* C8 witness: a read() entered with finished = true has returned.
C8_Witness ==
    /\ kind = "zio_reader"
    /\ finished
    /\ rpc = "idle"
    /\ ev = {"read"}
    /\ result = Ok0

\* C9 (stream/zio/reader.rs Reader): once finished is true, no step calls
\* fill_buf or moves the source position, the later iterations of the
\* read() call that set the flag included.
C9_NoInputAfterFinished ==
    [][(kind = "zio_reader" /\ finished /\ dstCap > 0)
           => ("fill_buf" \notin ev' /\ pos' = pos)]_vars

\* C10 (stream/zio.rs Writer): once finished is true and the staging buffer
\* is drained, no call hands a byte to the sink or steps the operation.
C10_NothingAfterFinished ==
    [][(wfinished /\ wpc = "idle" /\ offset = Len(buffer))
           => /\ sink' = sink
              /\ wev' \cap {"run", "op_flush", "op_finish"} = {}]_vars


(* ------------------------- Writer: write ------------------------------ *)

\* A write() call has returned Ok.
C11_Returned == wpc = "idle" /\ "write" \in wev /\ wresult.tag = "ok"

\* C11: a successful write() of a non-empty buf returns Ok(n) with
\* 1 <= n <= buf.len(), n being what the operation consumed in the run call
\* that made progress, the run calls before it having consumed nothing; a
\* write() of an empty buf returns Ok(0) after one run call; the caller is
\* never told fewer bytes than the operation took.
C11_WriteReturnValue ==
    /\ [](/\ C11_Returned =>
               IF wbuf = <<>> THEN wresult.n = 0
               ELSE wresult.n \in 1..Len(wbuf)
          /\ taken = SubSeq(input, 1, wpos))
    /\ [][("run" \in wev') =>
              /\ Len(taken') - Len(taken) =
                     (IF wpc' = "idle" THEN wresult'.n ELSE 0)
              /\ (wbuf' = <<>> => wpc' = "idle" /\ "call" \in wev')]_vars

\* A write() that returned Ok(n) at a run call that was not its first, the
\* run calls before it having consumed nothing.
C11_Witness ==
    /\ C11_Returned
    /\ "call" \notin wev
    /\ wresult.n >= 1
    /\ wresult.n = Len(wbuf)

(* ------------------------- Writer: flush ------------------------------ *)

\* C12: when flush() returns Ok the operation holds no compressed byte of
\* the input accepted so far: all of them have reached the sink.
C12_FlushComplete ==
    (wpc = "idle" /\ "flush" \in wev /\ wresult.tag = "ok")
        => /\ enc.inbuf = <<>>
           /\ enc.pend = <<>>
           /\ sink = produced

(* ------------------------- Writer: finish ----------------------------- *)

\* A finish() call has returned Ok.
C13_Returned == wpc = "idle" /\ "finish" \in wev /\ wresult.tag = "ok"

\* C13: finish() returns Ok only with finished true and the staging buffer
\* drained; finished is true exactly when operation.finish returned 0;
\* operation.finish is called again exactly while its last return was not
\* 0, and the staging buffer is drained between two calls of it.
C13_FinishComplete ==
    /\ [](/\ C13_Returned => wfinished /\ offset = Len(buffer)
          /\ wpc = "finish" => offset = Len(buffer))
    /\ [][/\ (wpc = "finish") => (("op_finish" \in wev') <=> ~wfinished)
          /\ ("op_finish" \in wev') =>
                 (wfinished' <=> (enc'.pend = <<>> /\ ~enc'.ending))]_vars

\* A finish() that returned Ok after a frame longer than the staging
\* buffer went to the sink.
C13_Witness ==
    /\ C13_Returned
    /\ "call" \notin wev
    /\ Len(sink) > WCap
    /\ sink = produced

\* C14: a finish() called right after a finish() that returned Ok returns
\* Ok, does not call operation.finish, sends nothing to the sink and
\* leaves offset, the staging buffer, finished and the operation as they
\* were.
C14_IdempotentFinish ==
    [][(C13_Returned /\ "finish" \in wev') =>
           /\ wresult'.tag = "ok"
           /\ wpc' = "idle"
           /\ "op_finish" \notin wev'
           /\ UNCHANGED <<sink, offset, buffer, wfinished, enc>>]_vars

\* A finish() that returned Ok at its entry, without a step of the
\* operation and without a byte sent.
C14_Witness ==
    /\ wpc = "idle"
    /\ wev = {"finish", "call"}
    /\ wresult.tag = "ok"
    /\ wfinished
    /\ \E i \in 1..Len(sink) : sink[i] = "E"

(* ----------------------- Writer: stalled sink ------------------------- *)

\* C15: a call in which the sink accepted 0 bytes of a non-empty pending
\* slice fails with WriteZero; the offset has moved by what the sink
\* accepted before and no further, the staging buffer is not overwritten
\* and the operation is not stepped after the failure, so the pending
\* bytes are still there for a later call.
C15_StalledSink ==
    /\ []((wresult.tag = "WriteZero" /\ wpc = "idle") =>
              /\ offset < Len(buffer)
              /\ produced = sink \o SubSeq(buffer, offset + 1, Len(buffer)))
    /\ [][(wresult'.tag = "WriteZero" /\ wpc' = "idle"
           /\ wev' \cap {"run", "op_flush", "op_finish"} = {}) =>
              /\ UNCHANGED <<buffer, enc, produced, wfinished>>
              /\ offset' - offset = Len(sink') - Len(sink)]_vars

\* A call that failed with WriteZero after the sink had accepted a part of
\* the pending bytes.
C15_Witness ==
    /\ wresult.tag = "WriteZero"
    /\ wpc = "idle"
    /\ wev \cap {"run", "op_flush", "op_finish"} = {}
    /\ offset > 0
    /\ offset < Len(buffer)

\* C20: every step of the operation made by the Writer finds the staging
\* buffer delivered to the sink up to its end, and 0 <= offset <=
\* buffer.len() <= capacity holds between calls.
C20_DrainedBeforeStep ==
    /\ [](offset \in 0..Len(buffer) /\ Len(buffer) <= WCap)
    /\ [][(wev' \cap {"run", "op_flush", "op_finish"} # {}) =>
              /\ Len(sink') >= Len(sink) + (Len(buffer) - offset)
              /\ SubSeq(sink', 1, Len(sink) + (Len(buffer) - offset)) =
                     sink \o SubSeq(buffer, offset + 1, Len(buffer))]_vars

\* A step of the operation taken after a drain that had bytes to deliver.
C20_Witness ==
    /\ wev \cap {"run", "op_flush", "op_finish"} # {}
    /\ "sink" \in wev
    /\ offset = 0
    /\ Len(sink) > 0
    /\ Len(buffer) = WCap


(* ------------- zio/reader.rs Reader: draining at EOF ------------------ *)

\* C16: around an Encoder, once the source is at EOF the reads keep
\* calling operation.finish until it returns 0 and return every byte it
\* wrote: what is read up to the first Ok(0) is all the output of run
\* followed by all the output of finish, a complete frame, and no read
\* into a non-empty buffer fails.
C16_EofDrain ==
    kind = "zio_reader_enc" =>
        /\ IsPrefix(delivered, Frame(source))
        /\ ended => delivered = Frame(source)
        /\ ~usedZeroCap => ~sawErr

\* The end of stream was reported after a frame whose blocks came out of
\* run and whose end came out of several finish calls.
C16_Witness ==
    /\ kind = "zio_reader_enc"
    /\ ended
    /\ finished
    /\ Len(source) > EncBlock
    /\ delivered = Frame(source)
    /\ result = Ok0

(* ------------- zio/reader.rs Reader: frame boundary ------------------- *)

\* C18: finished_frame is false whenever run is invoked: a run call that
\* returned hint 0 is followed by reinit before the next run call, also
\* when the completing step wrote no byte and the loop iterates again.
C18_ReinitBeforeRun ==
    [][(kind = "zio_reader" /\ ~single_frame /\ finished_frame)
           => "run" \notin ev']_vars

(* ----------------------- zero-capacity read --------------------------- *)

\* C19: a read() into an empty buffer makes at most one step of the
\* operation: it never comes back to the head of its loop after a step,
\* and so does not walk over the rest of the source.
C19_ZeroCapacityRead ==
    (started /\ dstCap = 0 /\ rpc = "loop") => "fill_buf" \notin ev

(* -------------------------- block round trip -------------------------- *)

C21_ErrorTransparency ==
    [][(kind = "zio" /\ rpc = "loop" /\ rpc' = "idle"
        /\ result'.tag \in {"Io", "Codec"}) =>
           /\ "consume" \notin ev'
           /\ UNCHANGED <<pos, needs_data, op, fused, delivered>>]_vars

\* A read() that failed on bytes that are no frame, after whole frames
\* had been read, while more data was expected.
C21_Witness ==
    /\ kind = "zio"
    /\ rpc = "idle"
    /\ result.tag = "Codec"
    /\ "run" \in ev
    /\ pos > 0
    /\ pos < Len(source)


(* -------------------- Writer: write and errors ------------------------ *)

C23_Fuse ==
    /\ [](~single_frame => ~fused)
    /\ [][/\ fused => fused'
          /\ single_frame => single_frame'
          /\ (~fused /\ fused') =>
                 /\ single_frame'
                 /\ ~needs_data'
                 /\ rpc = "loop"
                 /\ rpc' = "idle"
                 /\ result'.tag = "ok"
          /\ (fused /\ "read" \in ev') =>
                 /\ ev' = {"read"}
                 /\ rpc' = "idle"
                 /\ result' = Ok0
                 /\ UNCHANGED <<pos, bufEnd, op, needs_data>>]_vars

\* A read answered Ok(0) by a fused Decoder whose source has bytes left.
C23_Witness ==
    /\ kind = "zio"
    /\ fused
    /\ single_frame
    /\ rpc = "idle"
    /\ ev = {"read"}
    /\ result = Ok0
    /\ pos < Len(source)


(* ------------------ raw::Decoder: flush and finish -------------------- *)

\* The adapters that wrap the Decoder.
C24_Decoding == kind \in {"zio", "zio_reader"}

\* flush or finish returned r to a Decoder in state st: Ok(0), no byte
\* written, no byte read, the state as before.
C24_NoOp(r, st) ==
    /\ ~r.err
    /\ r.hint = 0
    /\ r.out = <<>>
    /\ r.rd = 0
    /\ OpState(r) = st

\* C24: in every state of the Decoder, and for every output buffer, flush
\* and finish return Ok(0), write nothing and leave the session state as
\* it was; a step of an adapter that calls finish delivers no byte and
\* leaves the operation and the source where they were.
C24_DecoderNoOps ==
    /\ [](C24_Decoding =>
              \A cap \in 0..MaxDst :
                  /\ C24_NoOp(DecFlush(op, cap), op)
                  /\ C24_NoOp(DecFinish(op, cap), op))
    /\ [][(C24_Decoding /\ "finish" \in ev') =>
              /\ UNCHANGED <<op, pos, delivered>>
              /\ result'.tag = "ok" => result'.n = 0]_vars

\* finish was called on a Decoder that held decoded bytes in the middle of
\* a frame, and handed none of them out.
C24_Witness ==
    /\ C24_Decoding
    /\ "finish" \in ev
    /\ op.pend # <<>>
    /\ result = Ok0


(* --------------------- encoder.rs (legacy Encoder) -------------------- *)

\* C25: finish ends by returning, Ok or Err, never by a panic, also when
\* the first end step of the engine leaves bytes behind.
C25_FinishCompletes == lstate # "panicked"

\* C26: a flush that returns Ok has forwarded to the writer exactly the
\* bytes the engine's flush step wrote into the output buffer.
C26_FlushForwardsOutput ==
    [][(lstate = "live" /\ "flush" \in wev' /\ wresult'.tag = "ok") =>
           SubSeq(sink', Len(sink) + 1, Len(sink')) =
               SubSeq(produced', Len(produced) + 1, Len(produced'))]_vars

\* The context of an Encoder that is gone has been freed.
C27_Gone == lstate \in {"failed", "finished", "finish_failed", "dropped"}

\* C27: the context is freed once when the Encoder ends by finish, by a
\* failed initialisation, or by a drop, after a write error as well; it is
\* never freed twice, it is live as long as the Encoder is, and every call
\* of the engine is made on a context that has not been freed.
C27_ContextLifecycle ==
    /\ [](/\ ctx.frees <= 1
          /\ C27_Gone => ctx.state = "freed" /\ ctx.frees = 1
          /\ lstate = "live" => ctx.state = "live" /\ ctx.frees = 0)
    /\ [][("engine" \in wev' /\ lstate' # "none") =>
              /\ ctx.state # "freed"
              /\ lstate \in {"none", "live"}]_vars

\* An Encoder dropped after a write that failed on its writer.
C27_Witness ==
    /\ lstate = "dropped"
    /\ wresult.tag \in DrainErrors
    /\ taken # <<>>
    /\ ctx = [state |-> "freed", frees |-> 1]

\* C28: a read with a non-empty buffer, a write and a finish that are
\* running return, over a finite source, a sink that takes every drain to an
\* end, and the engines' steps; and an iteration after which the loop goes
\* on has consumed input (read), produced output (write), or produced
\* output or reached the end of the frame (finish).
C28_Returns ==
    /\ (rpc = "loop" /\ dstCap > 0) ~> (rpc = "idle")
    /\ (wpc = "write") ~> (wpc = "idle")
    /\ (wpc = "finish") ~> (wpc = "idle")

C28_Progress ==
    /\ [][(rpc = "loop" /\ rpc' = "loop" /\ dstCap > 0) => pos' > pos]_vars
    /\ [][(wpc' = "write") => Len(produced') > Len(produced)]_vars
    /\ [][(wpc' = "finish") =>
              Len(produced') > Len(produced) \/ wfinished']_vars

C28_CallsTerminate == C28_Returns /\ C28_Progress

\* A read with a non-empty buffer is in its loop again after an iteration
\* that consumed input and wrote nothing.
C28_Witness ==
    /\ rpc = "loop"
    /\ dstCap > 0
    /\ "consume" \in ev
    /\ pos > 0
    /\ pos < Len(source)

====
